---- MODULE Spec2Model ----
(***************************************************************************)
(* Model of pytools.logging: the JSON array file sink (JSONFileHandler),   *)
(* the two formatters and setup_logging, on top of the standard logging    *)
(* dispatch (root logger, handler levels, handler lock, logging.shutdown). *)
(*                                                                         *)
(* File contents and stream buffers are sequences of tokens: a token is    *)
(* either one of the three punctuation strings the sink writes or one      *)
(* rendered record.                                                        *)
(***************************************************************************)
EXTENDS Integers, Sequences, FiniteSets, TLC

(* ---- bounds ---------------------------------------------------------- *)
MaxCalls == 4       \* calls the application makes before the process exits
MaxMsgLen == 3      \* characters in a message given to the formatters

MaxThreads == 2     \* threads that log concurrently
MaxEvents == 3      \* events these threads emit between them

(* ---- severities (logging module constants) --------------------------- *)
NOTSET == 0
DEBUG == 10
INFO == 20
WARNING == 30
ERROR == 40
CRITICAL == 50

Levels == {DEBUG, INFO, WARNING, ERROR, CRITICAL}

\* levels a caller passes to setup_logging in the model
SetupLevels == {INFO, WARNING}

\* levels of the events the application emits in the model
EventLevels == {INFO, WARNING}

LevelName(l) ==
    CASE l = DEBUG -> "DEBUG"
      [] l = INFO -> "INFO"
      [] l = WARNING -> "WARNING"
      [] l = ERROR -> "ERROR"
      [] l = CRITICAL -> "CRITICAL"
      [] OTHER -> "Level"

(* ---- tokens ----------------------------------------------------------- *)
Punct(s) == [k |-> "punct", s |-> s, n |-> 0]

ArrayOpen == Punct("[\n")

Separator == Punct(",\n")

ArrayClose == Punct("\n]\n")

\* JSONFormatter.format: one JSON object per record; the model keeps the
\* level name and the message (the number of the event)
JSONFormat(record) == [k |-> "obj", s |-> LevelName(record.levelno), n |-> record.msg]

\* a record left in a file by an earlier run of the program
OldRecord == [k |-> "obj", s |-> "INFO", n |-> 0]

IsObj(tok) == tok.k = "obj"

(* ---- console formatter (ESC stands for the byte 0x1b) ------------------- *)
grey == "ESC[38;20m"

yellow == "ESC[33;20m"

red == "ESC[31;20m"

bold_red == "ESC[31;1m"

reset == "ESC[0m"

FORMATSGrey(l) == grey

FORMATS(l) ==
    CASE l = DEBUG -> grey
      [] l = INFO -> grey
      [] l = WARNING -> yellow
      [] l = ERROR -> red
      [] l = CRITICAL -> bold_red

CustomFormat(record) ==
    [prefix |-> FORMATS(record.levelno), level |-> LevelName(record.levelno),
     msg |-> record.msg, suffix |-> reset]

(* ---- message text ------------------------------------------------------ *)
\* A message is a sequence of characters. The characters that matter to the
\* formatters and to the text stream: ordinary ones, the double quote, the
\* backslash, the newline, a control character (U+0001), a non-ASCII
\* character (U+00E9) and a lone surrogate (U+D800), which no encoding of
\* the text stream accepts.
Chars == {"a", "n", "\"", "\\", "\n", "U+0001", "U+00E9", "U+D800"}

Msgs == UNION {[1..n -> Chars] : n \in 0..MaxMsgLen}

Severities == {DEBUG, INFO, WARNING, ERROR, CRITICAL}

\* the file is opened without an encoding argument: the locale's encoding
Encodings == {"utf-8", "ascii"}

\* json.dumps(..., ensure_ascii=False) on one character of a string: quote,
\* backslash and control characters are escaped, everything else is copied
EscapeBare(c) == <<c>>

Escape(c) ==
    CASE c = "\"" -> <<"\\", "\"">>
      [] c = "\\" -> <<"\\", "\\">>
      [] c = "\n" -> <<"\\", "n">>
      [] c = "U+0001" -> <<"\\", "u", "0", "0", "0", "1">>
      [] OTHER -> <<c>>

RECURSIVE EscapeAll(_)
EscapeAll(msg) == IF msg = <<>> THEN <<>> ELSE Escape(Head(msg)) \o EscapeAll(Tail(msg))

\* the text json.dumps renders before the message value: the keys timestamp,
\* level, module, function, line, in the order of the dict, then "message"
JSONHead(record) ==
    <<"{\"timestamp\": \"2026-01-01 00:00:00.000000\", \"level\": \"",
      LevelName(record.levelno),
      "\", \"module\": \"main\", \"function\": \"<module>\", \"line\": 8, \"message\": ",
      "\"">>

\* JSONFormatter.format as text: json.dumps(obj=log_record, ensure_ascii=False)
JSONDumps(record) == JSONHead(record) \o EscapeAll(record.msg) \o <<"\"", "}">>

\* TextIOWrapper.write encodes the whole string (errors="strict") before it
\* buffers any of it
Encodable(c, encoding) ==
    CASE c = "U+D800" -> FALSE
      [] c = "U+00E9" -> encoding = "utf-8"
      [] OTHER -> TRUE

NoRecord ==
    [levelno |-> NOTSET, msg |-> <<>>, encoding |-> "utf-8", pc |-> "none",
     console |-> <<>>, json |-> <<>>, out |-> <<>>, raised |-> "none"]

(* ---- file names -------------------------------------------------------- *)
\* UTC seconds: every setup_logging call can fall into a second of its own
Times == 1..MaxCalls

\* sys.argv[0], as a path
Argv0 == <<"src", "main.py">>

\* sys.argv[0].split(sep="/")[-1]
BaseNameFirst(path) == path[1]

BaseName(path) == path[Len(path)]

\* f"logs/{basename}_{dt}_UTC.json", dt being the UTC time to the second: one
\* name per UTC second
FileNameFixed(dt) == <<"logs/", BaseName(Argv0), "_", 1, "_UTC.json">>

FileName(dt) == <<"logs/", BaseName(Argv0), "_", dt, "_UTC.json">>

FileNames == {FileName(t) : t \in Times}

(* ---- sequences --------------------------------------------------------- *)
IsPrefix(s, t) == Len(s) <= Len(t) /\ SubSeq(t, 1, Len(s)) = s

Drop(s, k) == SubSeq(s, k + 1, Len(s))

Min(a, b) == IF a <= b THEN a ELSE b

(* ---- state -------------------------------------------------------------- *)
VARIABLES
    clock,      \* current UTC second
    logsDir,    \* whether the logs/ directory exists
    exists,     \* file name -> whether the file exists
    disk,       \* file name -> bytes on durable storage
    hs,         \* every handler object created so far, by identity
    hist,       \* per handler: what has been done to it (history)
    root,       \* the root logger: its level and its handlers list
    stdout,     \* lines written to sys.stdout
    stderr,     \* lines written to sys.stderr
    raised,     \* exception the last call raised to its caller, or "none"
    nsetups,    \* setup_logging calls made
    nlogs,      \* log events emitted
    ncloses,    \* close() calls made by the application
    lastEvent,  \* the record of the last log call
    lastSetup,  \* the arguments of the last setup_logging call
    pc,         \* "running", or "exited" once logging.shutdown has run
    tpc,        \* per logging thread: where it is in its log call
    tfirst,     \* per logging thread: the value of _first_log it has read
    tdone,      \* per logging thread: log calls completed
    lock,       \* the thread that holds the file handler's lock, or 0
    fmt         \* one record on its way through the formatters to the file

tvars == <<tpc, tfirst, tdone, lock>>

vars == <<clock, logsDir, exists, disk, hs, hist, root, stdout, stderr, raised,
          nsetups, nlogs, ncloses, lastEvent, lastSetup, pc, tvars, fmt>>

Threads == 1..MaxThreads

Calls == nsetups + nlogs + ncloses

Handlers == 1..Len(hs)

FileHandlers == {h \in Handlers : hs[h].kind = "file"}

Attached == {root.handlers[i] : i \in 1..Len(root.handlers)}

\* When the process starts either logs/ does not exist, or an earlier run of
\* the program in this very second has left its log file there: empty,
\* unterminated or terminated
InitContents == {<<>>, <<ArrayOpen, OldRecord>>, <<ArrayOpen, OldRecord, ArrayClose>>}

NewHist(no, content, dt) ==
    [setupNo |-> no, dt |-> dt, start |-> content, attempts |-> 0, wrote |-> <<>>,
     sent |-> <<>>, lastOk |-> FALSE, closes |-> 0, terminated |-> 0]

(* ---- JSONFileHandler ---------------------------------------------------- *)
\* _first_log as __init__ computes it, from the file's state after the open
FirstLogAlways(ex, content) == TRUE

FirstLogAtOpen(ex, content) == ~ex \/ Len(content) = 0

\* mode "a": opening keeps what the file holds
OpenAppend(content) == content

\* self.flush(): everything buffered in the stream reaches the disk
FlushSkipped(content, buf) == [disk |-> content, buf |-> buf]

FlushStream(content, buf) == [disk |-> content \o buf, buf |-> <<>>]

\* the punctuation emit writes before a record
SeparatorAlways(first_log) == Separator

SeparatorFor(first_log) == IF first_log THEN ArrayOpen ELSE Separator

\* emit has no try/except and never calls handleError: an exception leaves
\* emit as it is
Swallow(exc) == "none"

Propagate(exc) == exc

\* emit(record) on handler h. fail says where the call fails, if at all:
\* "rec" at format(record) or at the write of the rendered record, "flush" at
\* self.flush(), which then leaves cut tokens of the buffer on disk and the
\* rest in the buffer. A handler whose stream is gone fails at the first
\* self.stream.write.
EmitOn(st, h, record, fail, cut) ==
    LET hd == st.hs[h]
        fn == hd.filename
        sep == SeparatorFor(hd.first_log)
        buf1 == Append(hd.buf, sep)
        buf2 == Append(buf1, JSONFormat(record))
        k == Min(cut, Len(buf2) - 1)
        fl == FlushStream(st.disk[fn], buf2)
        tried == [st EXCEPT !.hist[h].attempts = @ + 1, !.hist[h].lastOk = FALSE]
    IN  CASE hd.stream # "open" ->
               [tried EXCEPT !.raised = Propagate("AttributeError")]
          [] hd.stream = "open" /\ fail = "rec" ->
               [tried EXCEPT !.hs[h].buf = buf1,
                             !.hs[h].first_log = FALSE,
                             !.hist[h].sent = Append(@, sep),
                             !.raised = Propagate("Exception")]
          [] hd.stream = "open" /\ fail = "flush" ->
               [tried EXCEPT !.hs[h].buf = Drop(buf2, k),
                             !.hs[h].first_log = FALSE,
                             !.disk[fn] = @ \o SubSeq(buf2, 1, k),
                             !.hist[h].sent = @ \o <<sep, JSONFormat(record)>>,
                             !.raised = Propagate("OSError")]
          [] OTHER ->
               [tried EXCEPT !.hs[h].buf = fl.buf,
                             !.hs[h].first_log = FALSE,
                             !.disk[fn] = fl.disk,
                             !.hist[h].sent = @ \o <<sep, JSONFormat(record)>>,
                             !.hist[h].wrote = Append(@, JSONFormat(record)),
                             !.hist[h].lastOk = TRUE]

\* close() on handler h; a console handler's close has nothing to write
CloseOn(st, h) ==
    LET hd == st.hs[h]
        fn == hd.filename
        buf1 == IF hd.first_log THEN hd.buf ELSE Append(hd.buf, ArrayClose)
        called == [st EXCEPT !.hist[h].closes = @ + 1]
    IN  CASE hd.kind = "console" -> called
          [] hd.kind = "file" /\ hd.stream # "open" /\ ~hd.first_log ->
               [called EXCEPT !.raised = "AttributeError"]
          [] hd.kind = "file" /\ hd.stream # "open" /\ hd.first_log -> called
          [] OTHER ->
               [called EXCEPT !.hs[h].buf = <<>>,
                              !.hs[h].stream = "closed",
                              !.disk[fn] = @ \o buf1,
                              !.hist[h].sent = @ \o Drop(buf1, Len(hd.buf)),
                              !.hist[h].terminated = @ + Len(buf1) - Len(hd.buf)]

\* flush() on handler h, as logging.shutdown calls it before close()
FlushOn(st, h) ==
    LET hd == st.hs[h]
    IN  IF hd.kind = "file" /\ hd.stream = "open"
        THEN [st EXCEPT !.hs[h].buf = <<>>, !.disk[hd.filename] = @ \o hd.buf]
        ELSE st

(* ---- dispatch ----------------------------------------------------------- *)
\* Logger.callHandlers: each handler of the root logger in turn, skipping a
\* handler whose level is above the record's; an exception ends the call
RECURSIVE CallHandlers(_, _, _, _, _)
CallHandlers(st, ids, record, fail, cut) ==
    IF ids = <<>> \/ st.raised # "none"
    THEN st
    ELSE LET h == Head(ids)
             hd == st.hs[h]
             st1 == IF record.levelno < hd.level
                    THEN st
                    ELSE IF hd.kind = "console"
                         THEN [st EXCEPT !.stderr = Append(@, CustomFormat(record))]
                         ELSE EmitOn(st, h, record, fail, cut)
         IN  CallHandlers(st1, Tail(ids), record, fail, cut)

\* logging.shutdown: flush and close every handler still alive, last created
\* first; an exception other than OSError and ValueError ends the loop
RECURSIVE ShutdownFrom(_, _)
ShutdownFrom(st, h) ==
    IF h = 0 \/ st.raised # "none"
    THEN st
    ELSE IF ~st.hs[h].alive
         THEN ShutdownFrom(st, h - 1)
         ELSE ShutdownFrom(CloseOn(FlushOn(st, h), h), h - 1)

Now == [hs |-> hs, hist |-> hist, disk |-> disk, stderr |-> stderr, raised |-> "none"]

Becomes(st) ==
    /\ hs' = st.hs
    /\ hist' = st.hist
    /\ disk' = st.disk
    /\ stderr' = st.stderr
    /\ raised' = st.raised

(* ---- setup_logging ------------------------------------------------------ *)
\* logger.handlers.clear()
KeepHandlers(handlers) == handlers

ClearHandlers(handlers) == <<>>

\* setLevel(level=log_level), on the logger and on each handler
SetLevelDefault(log_level) == NOTSET

SetLevel(log_level) == log_level

ConsoleHandler(log_level) ==
    [kind |-> "console", level |-> SetLevel(log_level), filename |-> <<>>,
     first_log |-> FALSE, stream |-> "stderr", buf |-> <<>>, alive |-> TRUE]

\* JSONFileHandler(filename): mode "a", delay False; content is what the file
\* holds when it is opened
JSONFileHandler(filename, log_level, content) ==
    [kind |-> "file", level |-> SetLevel(log_level), filename |-> filename,
     first_log |-> FirstLogAtOpen(TRUE, OpenAppend(content)),
     stream |-> "open", buf |-> <<>>, alive |-> TRUE]

\* A handler the cleared list was the last reference to is reclaimed on the
\* spot: its stream object is finalized (buffer flushed, descriptor closed)
\* and its weak reference leaves logging._handlerList; close() is not called.
RECURSIVE Finalize(_, _)
Finalize(st, ids) ==
    IF ids = <<>>
    THEN st
    ELSE LET h == Head(ids)
             st1 == FlushOn(st, h)
         IN  Finalize([st1 EXCEPT !.hs[h].alive = FALSE,
                                  !.hs[h].stream = IF @ = "open" THEN "finalized" ELSE @],
                      Tail(ids))

\* setup_logging(log_to_file, log_level), called when the UTC clock shows dt:
\* the second of the previous call, or a later one
Setup(log_to_file, log_level, dt) ==
    /\ pc = "running"
    /\ Calls < MaxCalls
    /\ dt \in {clock, clock + 1} \cap Times
    /\ ~log_to_file => dt = clock
    /\ LET kept == ClearHandlers(root.handlers)
           st == IF kept = root.handlers THEN Now ELSE Finalize(Now, root.handlers)
           cid == Len(hs) + 1
           fid == Len(hs) + 2
           fn == FileName(dt)
       IN  /\ stderr' = st.stderr
           /\ IF log_to_file
              THEN /\ logsDir' = TRUE
                   /\ exists' = [exists EXCEPT ![fn] = TRUE]
                   /\ disk' = [st.disk EXCEPT ![fn] = OpenAppend(@)]
                   /\ hs' = st.hs \o <<ConsoleHandler(log_level),
                                       JSONFileHandler(fn, log_level, st.disk[fn])>>
                   /\ hist' = hist \o <<NewHist(nsetups + 1, <<>>, dt),
                                           NewHist(nsetups + 1, OpenAppend(st.disk[fn]), dt)>>
                   /\ root' = [level |-> SetLevel(log_level), handlers |-> kept \o <<cid, fid>>]
              ELSE /\ UNCHANGED <<logsDir, exists>>
                   /\ disk' = st.disk
                   /\ hs' = Append(st.hs, ConsoleHandler(log_level))
                   /\ hist' = Append(hist, NewHist(nsetups + 1, <<>>, dt))
                   /\ root' = [level |-> SetLevel(log_level), handlers |-> Append(kept, cid)]
    /\ clock' = dt
    /\ nsetups' = nsetups + 1
    /\ lastSetup' = [log_to_file |-> log_to_file, log_level |-> log_level]
    /\ raised' = "none"
    /\ UNCHANGED <<stdout, nlogs, ncloses, lastEvent, pc, tvars, fmt>>

(* ---- the application and the runtime ------------------------------------ *)
\* logging.log(level, msg) on the root logger
Log(level, fail, cut) ==
    /\ pc = "running"
    /\ nsetups >= 1
    /\ Calls < MaxCalls
    /\ fail # "flush" => cut = 0
    /\ LET record == [levelno |-> level, msg |-> nlogs + 1]
       IN  /\ lastEvent' = record
           /\ IF level >= root.level
              THEN Becomes(CallHandlers(Now, root.handlers, record, fail, cut))
              ELSE Becomes(Now)
    /\ nlogs' = nlogs + 1
    /\ UNCHANGED <<clock, logsDir, exists, root, stdout, nsetups, ncloses, lastSetup, pc, tvars, fmt>>

\* the application closes a handler it takes from the root logger's list
Close(h) ==
    /\ pc = "running"
    /\ h \in Attached
    /\ hs[h].kind = "file"
    /\ Calls < MaxCalls
    /\ Becomes(CloseOn(Now, h))
    /\ ncloses' = ncloses + 1
    /\ UNCHANGED <<clock, logsDir, exists, root, stdout, nsetups, nlogs,
                   lastEvent, lastSetup, pc, tvars, fmt>>

\* the interpreter exits: atexit runs logging.shutdown
Shutdown ==
    /\ pc = "running"
    /\ nsetups >= 1
    /\ Becomes(ShutdownFrom(Now, Len(hs)))
    /\ pc' = "exited"
    /\ UNCHANGED <<clock, logsDir, exists, root, stdout, nsetups, nlogs,
                   ncloses, lastEvent, lastSetup, tvars, fmt>>

Outcomes == {"ok", "rec", "flush"}

Cuts == {0, 1}

Init ==
    /\ clock = 1
    /\ logsDir \in BOOLEAN
    /\ exists = [f \in FileNames |-> f = FileName(1) /\ logsDir]
    /\ \E c \in InitContents :
          disk = [f \in FileNames |-> IF exists[f] THEN c ELSE <<>>]
    /\ hs = <<>>
    /\ hist = <<>>
    /\ root = [level |-> WARNING, handlers |-> <<>>]
    /\ stdout = <<>>
    /\ stderr = <<>>
    /\ raised = "none"
    /\ nsetups = 0
    /\ nlogs = 0
    /\ ncloses = 0
    /\ lastEvent = [levelno |-> NOTSET, msg |-> 0]
    /\ lastSetup = [log_to_file |-> FALSE, log_level |-> NOTSET]
    /\ pc = "running"
    /\ tpc = [t \in Threads |-> "idle"]
    /\ tfirst = [t \in Threads |-> FALSE]
    /\ tdone = [t \in Threads |-> 0]
    /\ lock = 0
    /\ fmt = NoRecord

Next ==
    \/ \E log_to_file \in BOOLEAN, log_level \in SetupLevels, dt \in Times :
          Setup(log_to_file, log_level, dt)
    \/ \E level \in EventLevels, fail \in Outcomes, cut \in Cuts : Log(level, fail, cut)
    \/ \E h \in Handlers : Close(h)
    \/ Shutdown

Spec == Init /\ [][Next]_vars

(* ---- concurrent logging ---------------------------------------------- *)
\* The process has called setup_logging(log_to_file=True, log_level=INFO)
\* once; its threads then log WARNING events through the root logger. A log
\* call is taken statement by statement: a thread can be preempted between
\* any two statements of emit.
Sink == 2

ThreadRecord(t) == [levelno |-> WARNING, msg |-> 10 * t + tdone[t] + 1]

\* Handler.handle, which JSONFileHandler inherits, calls emit with the
\* handler's lock held: a thread waits while another thread holds it
LockIgnored(owner) == TRUE

LockFree(owner) == owner = 0

RECURSIVE Total(_, _)
Total(f, n) == IF n = 0 THEN 0 ELSE f[n] + Total(f, n - 1)

\* log calls the threads have begun
Started == Total(tdone, MaxThreads) + Cardinality({t \in Threads : tpc[t] # "idle"})

svars == <<clock, logsDir, exists, root, stdout, raised, nsetups, nlogs, ncloses,
           lastEvent, lastSetup, pc, fmt>>

\* the log call passes the level checks; the console handler, first in the
\* list, writes its line
T_Log(t) ==
    /\ tpc[t] = "idle"
    /\ Started < MaxEvents
    /\ ThreadRecord(t).levelno >= root.level
    /\ stderr' = Append(stderr, CustomFormat(ThreadRecord(t)))
    /\ tpc' = [tpc EXCEPT ![t] = "handle"]
    /\ UNCHANGED <<svars, disk, hs, hist, tfirst, tdone, lock>>

\* handle(record) on the file handler: acquire
T_Acquire(t) ==
    /\ tpc[t] = "handle"
    /\ LockFree(lock)
    /\ lock' = t
    /\ tpc' = [tpc EXCEPT ![t] = "emit"]
    /\ hist' = [hist EXCEPT ![Sink].attempts = @ + 1, ![Sink].lastOk = FALSE]
    /\ UNCHANGED <<svars, disk, hs, stderr, tfirst, tdone>>

\* if self._first_log:
T_ReadFlag(t) ==
    /\ tpc[t] = "emit"
    /\ tfirst' = [tfirst EXCEPT ![t] = hs[Sink].first_log]
    /\ tpc' = [tpc EXCEPT ![t] = "sep"]
    /\ UNCHANGED <<svars, disk, hs, hist, stderr, tdone, lock>>

\* self.stream.write("[\n"); self._first_log = False, or
\* self.stream.write(",\n")
T_WriteSep(t) ==
    /\ tpc[t] = "sep"
    /\ hs[Sink].stream = "open"
    /\ hs' = [hs EXCEPT ![Sink].buf = Append(@, SeparatorFor(tfirst[t])),
                        ![Sink].first_log = IF tfirst[t] THEN FALSE ELSE @]
    /\ hist' = [hist EXCEPT ![Sink].sent = Append(@, SeparatorFor(tfirst[t]))]
    /\ tpc' = [tpc EXCEPT ![t] = "rec"]
    /\ UNCHANGED <<svars, disk, stderr, tfirst, tdone, lock>>

\* self.stream.write(self.format(record))
T_WriteRec(t) ==
    /\ tpc[t] = "rec"
    /\ hs' = [hs EXCEPT ![Sink].buf = Append(@, JSONFormat(ThreadRecord(t)))]
    /\ hist' = [hist EXCEPT ![Sink].sent = Append(@, JSONFormat(ThreadRecord(t)))]
    /\ tpc' = [tpc EXCEPT ![t] = "flush"]
    /\ UNCHANGED <<svars, disk, stderr, tfirst, tdone, lock>>

\* self.flush()
T_Flush(t) ==
    /\ tpc[t] = "flush"
    /\ LET fl == FlushStream(disk[hs[Sink].filename], hs[Sink].buf)
       IN  /\ hs' = [hs EXCEPT ![Sink].buf = fl.buf]
           /\ disk' = [disk EXCEPT ![hs[Sink].filename] = fl.disk]
    /\ hist' = [hist EXCEPT ![Sink].wrote = Append(@, JSONFormat(ThreadRecord(t))),
                            ![Sink].lastOk = TRUE]
    /\ tpc' = [tpc EXCEPT ![t] = "release"]
    /\ UNCHANGED <<svars, stderr, tfirst, tdone, lock>>

\* handle(record): release; the log call returns
T_Release(t) ==
    /\ tpc[t] = "release"
    /\ lock' = 0
    /\ tdone' = [tdone EXCEPT ![t] = @ + 1]
    /\ tpc' = [tpc EXCEPT ![t] = "idle"]
    /\ UNCHANGED <<svars, disk, hs, hist, stderr, tfirst>>

InitConc ==
    /\ clock = 1
    /\ logsDir = TRUE
    /\ exists = [f \in FileNames |-> f = FileName(1)]
    /\ \E c \in InitContents :
          /\ disk = [f \in FileNames |-> IF f = FileName(1) THEN c ELSE <<>>]
          /\ hs = <<ConsoleHandler(INFO), JSONFileHandler(FileName(1), INFO, c)>>
          /\ hist = <<NewHist(1, <<>>, 1), NewHist(1, c, 1)>>
    /\ root = [level |-> SetLevel(INFO), handlers |-> <<1, Sink>>]
    /\ stdout = <<>>
    /\ stderr = <<>>
    /\ raised = "none"
    /\ nsetups = 1
    /\ nlogs = 0
    /\ ncloses = 0
    /\ lastEvent = [levelno |-> NOTSET, msg |-> 0]
    /\ lastSetup = [log_to_file |-> TRUE, log_level |-> INFO]
    /\ pc = "running"
    /\ tpc = [t \in Threads |-> "idle"]
    /\ tfirst = [t \in Threads |-> FALSE]
    /\ tdone = [t \in Threads |-> 0]
    /\ lock = 0
    /\ fmt = NoRecord

NextConc ==
    \/ \E t \in Threads : T_Log(t)
    \/ \E t \in Threads : T_Acquire(t)
    \/ \E t \in Threads : T_ReadFlag(t)
    \/ \E t \in Threads : T_WriteSep(t)
    \/ \E t \in Threads : T_WriteRec(t)
    \/ \E t \in Threads : T_Flush(t)
    \/ \E t \in Threads : T_Release(t)

SpecConc == InitConc /\ [][NextConc]_vars

(* ---- close() while threads log ------------------------------------------ *)
\* One more thread calls close() on the sink while the others log.
\* close(): if not self._first_log: self.stream.write("\n]\n"), which runs
\* without the handler's lock
T_CloseWrite ==
    /\ hist[Sink].closes = 0
    /\ hs[Sink].stream = "open"
    /\ hs' = [hs EXCEPT ![Sink].buf =
                 IF hs[Sink].first_log THEN @ ELSE Append(@, ArrayClose)]
    /\ hist' = [hist EXCEPT ![Sink].closes = 1,
                            ![Sink].sent =
                                IF hs[Sink].first_log THEN @ ELSE Append(@, ArrayClose),
                            ![Sink].terminated =
                                IF hs[Sink].first_log THEN @ ELSE @ + 1]
    /\ UNCHANGED <<svars, disk, stderr, tvars>>

\* close(): super().close(), FileHandler.close, which takes the lock, flushes
\* and closes the stream and sets self.stream to None
T_CloseRest ==
    /\ hist[Sink].closes = 1
    /\ hs[Sink].stream = "open"
    /\ LockFree(lock)
    /\ LET fl == FlushStream(disk[hs[Sink].filename], hs[Sink].buf)
       IN  /\ hs' = [hs EXCEPT ![Sink].buf = fl.buf, ![Sink].stream = "closed"]
           /\ disk' = [disk EXCEPT ![hs[Sink].filename] = fl.disk]
    /\ UNCHANGED <<svars, hist, stderr, tvars>>

\* emit on the closed sink: self.stream.write on None raises AttributeError
\* out of handle, whose finally clause releases the lock
T_Raise(t) ==
    /\ tpc[t] = "sep"
    /\ hs[Sink].stream # "open"
    /\ raised' = Propagate("AttributeError")
    /\ lock' = 0
    /\ tdone' = [tdone EXCEPT ![t] = @ + 1]
    /\ tpc' = [tpc EXCEPT ![t] = "idle"]
    /\ UNCHANGED <<clock, logsDir, exists, root, stdout, nsetups, nlogs, ncloses,
                   lastEvent, lastSetup, pc, fmt, disk, hs, hist, stderr, tfirst>>

NextConcClose ==
    \/ NextConc
    \/ T_CloseWrite
    \/ T_CloseRest
    \/ \E t \in Threads : T_Raise(t)

SpecConcClose == InitConc /\ [][NextConcClose]_vars

(* ---- the sink used directly -------------------------------------------- *)
\* Two sinks constructed by the application itself on two files with the
\* same content, JSONFileHandler(name) and JSONFileHandler(name, delay=True),
\* receive the same calls: handle(record) any number of times, then close().
Immediate == 1

Lazy == 2

\* __init__ with delay: FileHandler.__init__ leaves self.stream None and does
\* not touch the file; without it the file is opened (and created)
DirectHandler(filename, delay, content) ==
    [JSONFileHandler(filename, NOTSET, content) EXCEPT
        !.stream = IF delay THEN "none" ELSE "open"]

dvars == <<clock, logsDir, exists, root, stdout, stderr, nsetups, lastSetup, pc, tvars, fmt>>

\* h.handle(record) on both sinks; raised is what the lazy sink's call raised
D_Handle(level) ==
    /\ ncloses = 0
    /\ Calls < MaxCalls
    /\ LET record == [levelno |-> level, msg |-> nlogs + 1]
           st1 == EmitOn(Now, Immediate, record, "ok", 0)
           st2 == EmitOn([st1 EXCEPT !.raised = "none"], Lazy, record, "ok", 0)
       IN  /\ Becomes(st2)
           /\ lastEvent' = record
    /\ nlogs' = nlogs + 1
    /\ UNCHANGED <<dvars, ncloses>>

\* h.close() on both sinks
D_Close ==
    /\ ncloses = 0
    /\ LET st1 == CloseOn(Now, Immediate)
           st2 == CloseOn([st1 EXCEPT !.raised = "none"], Lazy)
       IN  Becomes(st2)
    /\ ncloses' = 1
    /\ UNCHANGED <<dvars, nlogs, lastEvent>>

InitSink ==
    /\ clock = 1
    /\ logsDir = TRUE
    /\ \E ex \in BOOLEAN, c \in InitContents :
          /\ ~ex => c = <<>>
          /\ exists = [f \in FileNames |-> f = FileName(Immediate) \/ (f = FileName(Lazy) /\ ex)]
          /\ disk = [f \in FileNames |-> IF f \in {FileName(Immediate), FileName(Lazy)} THEN c ELSE <<>>]
          /\ hs = <<DirectHandler(FileName(Immediate), FALSE, c),
                    DirectHandler(FileName(Lazy), TRUE, c)>>
          /\ hist = <<NewHist(0, c, 1), NewHist(0, c, 1)>>
    /\ root = [level |-> WARNING, handlers |-> <<>>]
    /\ stdout = <<>>
    /\ stderr = <<>>
    /\ raised = "none"
    /\ nsetups = 0
    /\ nlogs = 0
    /\ ncloses = 0
    /\ lastEvent = [levelno |-> NOTSET, msg |-> 0]
    /\ lastSetup = [log_to_file |-> FALSE, log_level |-> NOTSET]
    /\ pc = "running"
    /\ tpc = [t \in Threads |-> "idle"]
    /\ tfirst = [t \in Threads |-> FALSE]
    /\ tdone = [t \in Threads |-> 0]
    /\ lock = 0
    /\ fmt = NoRecord

NextSink ==
    \/ \E level \in Levels : D_Handle(level)
    \/ D_Close

SpecSink == InitSink /\ [][NextSink]_vars

(* ---- one record through the formatters ---------------------------------- *)
\* CustomFormatter.format(record), called by the console handler
F_Console ==
    /\ fmt.pc = "new"
    /\ fmt' = [fmt EXCEPT !.console = CustomFormat([levelno |-> fmt.levelno, msg |-> fmt.msg]),
                          !.pc = "console"]
    /\ UNCHANGED <<clock, logsDir, exists, disk, hs, hist, root, stdout, stderr, raised,
                   nsetups, nlogs, ncloses, lastEvent, lastSetup, pc, tvars>>

\* JSONFormatter.format(record), called by emit
F_JSON ==
    /\ fmt.pc = "console"
    /\ fmt' = [fmt EXCEPT !.json = JSONDumps([levelno |-> fmt.levelno, msg |-> fmt.msg]),
                          !.pc = "json"]
    /\ UNCHANGED <<clock, logsDir, exists, disk, hs, hist, root, stdout, stderr, raised,
                   nsetups, nlogs, ncloses, lastEvent, lastSetup, pc, tvars>>

\* self.stream.write(self.format(record)); self.flush()
F_Write ==
    /\ fmt.pc = "json"
    /\ IF \A i \in 1..Len(fmt.json) : Encodable(fmt.json[i], fmt.encoding)
       THEN fmt' = [fmt EXCEPT !.out = fmt.json, !.pc = "written"]
       ELSE fmt' = [fmt EXCEPT !.raised = Propagate("UnicodeEncodeError"), !.pc = "failed"]
    /\ UNCHANGED <<clock, logsDir, exists, disk, hs, hist, root, stdout, stderr, raised,
                   nsetups, nlogs, ncloses, lastEvent, lastSetup, pc, tvars>>

InitFmt ==
    /\ clock = 1
    /\ logsDir = TRUE
    /\ exists = [f \in FileNames |-> f = FileName(1)]
    /\ disk = [f \in FileNames |-> <<>>]
    /\ hs = <<>>
    /\ hist = <<>>
    /\ root = [level |-> WARNING, handlers |-> <<>>]
    /\ stdout = <<>>
    /\ stderr = <<>>
    /\ raised = "none"
    /\ nsetups = 0
    /\ nlogs = 0
    /\ ncloses = 0
    /\ lastEvent = [levelno |-> NOTSET, msg |-> 0]
    /\ lastSetup = [log_to_file |-> FALSE, log_level |-> NOTSET]
    /\ pc = "running"
    /\ tpc = [t \in Threads |-> "idle"]
    /\ tfirst = [t \in Threads |-> FALSE]
    /\ tdone = [t \in Threads |-> 0]
    /\ lock = 0
    /\ \E level \in Severities, msg \in Msgs, encoding \in Encodings :
          fmt = [NoRecord EXCEPT !.levelno = level, !.msg = msg,
                                 !.encoding = encoding, !.pc = "new"]

NextFmt ==
    \/ F_Console
    \/ F_JSON
    \/ F_Write

SpecFmt == InitFmt /\ [][NextFmt]_vars

(* ---- reading a file back ------------------------------------------------ *)
\* r1 ,\n r2 ,\n ... rN
RECURSIVE JoinRecords(_)
JoinRecords(rs) ==
    IF Len(rs) <= 1 THEN rs ELSE <<Head(rs), Separator>> \o JoinRecords(Tail(rs))

\* ,\n r1 ,\n r2 ... ,\n rN
RECURSIVE Continuation(_)
Continuation(rs) ==
    IF rs = <<>> THEN <<>> ELSE <<Separator, Head(rs)>> \o Continuation(Tail(rs))

\* a JSON parser's verdict on a file: '[' value (',' value)* ']', whitespace
\* aside, with at least one value (the sink never writes '[' ']' alone)
IsJSONArray(c) ==
    /\ Len(c) >= 3
    /\ Len(c) % 2 = 1
    /\ c[1] = ArrayOpen
    /\ c[Len(c)] = ArrayClose
    /\ \A i \in 2..(Len(c) - 1) : IF i % 2 = 0 THEN IsObj(c[i]) ELSE c[i] = Separator

Objects(c) == SelectSeq(c, IsObj)

\* h is the only handler ever opened on its file
Sole(h) == \A g \in FileHandlers : g # h => hs[g].filename # hs[h].filename

\* every emit made on h so far succeeded
AllSucceeded(h) == hist[h].attempts = Len(hist[h].wrote)

Content(h) == disk[hs[h].filename]

(* ---- claims ------------------------------------------------------------- *)

\* C1: N >= 0 successful writes and then one close, on a sink opened against
\* an absent or empty file that no other sink shares: for N > 0 the file is
\* exactly [\n r1 ,\n ... rN \n]\n and parses as the array of the N records
\* in call order; for N = 0 the file is empty.
C1_ArrayAfterClose ==
    \A h \in FileHandlers :
        (/\ hist[h].start = <<>>
         /\ Sole(h)
         /\ AllSucceeded(h)
         /\ hist[h].closes = 1
         /\ hs[h].stream = "closed")
        => IF hist[h].wrote = <<>>
           THEN Content(h) = <<>>
           ELSE /\ Content(h) = <<ArrayOpen>> \o JoinRecords(hist[h].wrote) \o <<ArrayClose>>
                /\ IsJSONArray(Content(h))
                /\ Objects(Content(h)) = hist[h].wrote

C1_Witness ==
    \E h \in FileHandlers :
        /\ hist[h].start = <<>>
        /\ Sole(h)
        /\ AllSucceeded(h)
        /\ hist[h].closes = 1
        /\ hs[h].stream = "closed"
        /\ Len(hist[h].wrote) = 2

\* C2: a session that writes no record leaves the file, on close, exactly as
\* it was at open, whether it was empty or held content.
C2_EmptySessionLeavesFile ==
    \A h \in FileHandlers :
        (/\ hist[h].attempts = 0
         /\ Sole(h)
         /\ hist[h].closes >= 1
         /\ hs[h].stream = "closed")
        => Content(h) = hist[h].start

\* C3: once the process has shut down cleanly, every file sink that wrote a
\* record has written its closing ] and closed its handle, a sink replaced
\* by a later setup_logging call included.
C3_EverySinkTerminated ==
    (pc = "exited" /\ raised = "none")
    => \A h \in FileHandlers :
           Len(hist[h].wrote) >= 1 => hist[h].terminated >= 1 /\ hs[h].stream = "closed"

CountAttached(kind) ==
    Cardinality({i \in 1..Len(root.handlers) : hs[root.handlers[i]].kind = kind})

OneOfEach ==
    /\ CountAttached("console") = 1
    /\ CountAttached("file") = IF lastSetup.log_to_file THEN 1 ELSE 0
    /\ \A h \in Attached : hist[h].setupNo = nsetups

\* C4: after every setup_logging call the root logger has exactly one
\* console handler and one file handler if the last call asked for it, none
\* otherwise, all attached by that call; no event reaches the console twice
\* or two file sinks.
C4_OneDestinationOfEach ==
    [][/\ nsetups' >= 1 => OneOfEach'
       /\ nlogs' = nlogs + 1 =>
             /\ Len(stderr') <= Len(stderr) + 1
             /\ Cardinality({h \in FileHandlers : hist'[h].attempts # hist[h].attempts}) <= 1]_vars

C4_Witness ==
    /\ nsetups >= 2
    /\ lastSetup.log_to_file
    /\ FileHandlers \ Attached # {}
    /\ nlogs >= 1
    /\ \E h \in FileHandlers \cap Attached : hist[h].attempts >= 1

\* C5: an event below the level given to setup_logging writes nothing to the
\* console, appends nothing to any file or stream buffer and leaves every
\* first-record flag; an event at or above it reaches every attached
\* handler.
C5_SeverityFiltering ==
    [][nlogs' = nlogs + 1 =>
          IF lastEvent'.levelno < lastSetup.log_level
          THEN /\ stderr' = stderr
               /\ stdout' = stdout
               /\ disk' = disk
               /\ hs' = hs
               /\ \A h \in Handlers : hist'[h].attempts = hist[h].attempts
          ELSE \A h \in Attached :
                  IF hs[h].kind = "console"
                  THEN stderr' = Append(stderr, CustomFormat(lastEvent'))
                  ELSE hist'[h].attempts = hist[h].attempts + 1]_vars

C5_Witness ==
    /\ nsetups = 1
    /\ nlogs = 2
    /\ Len(stderr) = 1
    /\ lastEvent.levelno < lastSetup.log_level
    /\ \E h \in FileHandlers \cap Attached :
          /\ hist[h].attempts = 1
          /\ Len(Content(h)) = 2

\* C6: the first-record flag changes only from true to false and only in a
\* write that completes; a failing write leaves it.
C6_FlagFlipsOnSuccessOnly ==
    [][\A h \in FileHandlers :
          hs'[h].first_log # hs[h].first_log
          => /\ hs[h].first_log
             /\ ~hs'[h].first_log
             /\ Len(hist'[h].wrote) = Len(hist[h].wrote) + 1]_vars

EmitFailed(h) ==
    /\ hist'[h].attempts = hist[h].attempts + 1
    /\ hist'[h].wrote = hist[h].wrote

\* C7: a failing emit raises to the caller of the log call, and what the
\* file held before the call is still a prefix of the file.
C7_FailurePropagates ==
    [][\A h \in FileHandlers :
          EmitFailed(h)
          => /\ raised' # "none"
             /\ \A f \in FileNames : IsPrefix(disk[f], disk'[f])]_vars

C7_Witness ==
    \E h \in FileHandlers :
        /\ raised # "none"
        /\ pc = "running"
        /\ hist[h].attempts = 2
        /\ Len(hist[h].wrote) = 1
        /\ ~hist[h].lastOk
        /\ Len(Content(h)) >= 2

\* C8: a sink opened against a file holding C leaves C alone, and after k
\* successful writes the file is C ,\n r1 ... ,\n rk: it never writes [\n,
\* whether or not C is a terminated array.
C8_ContinuationOnExisting ==
    \A h \in FileHandlers :
        (/\ hist[h].start # <<>>
         /\ Sole(h)
         /\ AllSucceeded(h)
         /\ hist[h].closes = 0
         /\ hs[h].stream = "open")
        => /\ Content(h) = hist[h].start \o Continuation(hist[h].wrote)
           /\ \A i \in 1..Len(hist[h].sent) : hist[h].sent[i] # ArrayOpen

C8_Witness ==
    \E h \in FileHandlers :
        /\ hist[h].start = <<ArrayOpen, OldRecord, ArrayClose>>
        /\ Sole(h)
        /\ AllSucceeded(h)
        /\ hist[h].closes = 0
        /\ hs[h].stream = "open"
        /\ Len(hist[h].wrote) = 2

Stream(h) == Content(h) \o hs[h].buf

Written(h) == SubSeq(Stream(h), Len(hist[h].start) + 1, Len(Stream(h)))

InEmit == {t \in Threads : tpc[t] \in {"emit", "sep", "rec", "flush", "release"}}

\* C10: with several threads logging through the root logger to one file
\* sink, the punctuation and the record of an event are never separated by
\* another event's: what the sink has written is punctuation and record in
\* strict alternation, a thread that has written its punctuation finds it
\* last in the stream and a thread that has written its record finds that
\* last, [\n is there once on a fresh file (never on a file with content),
\* the flag is false from the first write on, and once no thread is inside
\* emit the file holds every completed record, each once.
C10_WritesSerialized ==
    LET w == Written(Sink)
    IN  /\ Cardinality(InEmit) <= 1
        /\ \A i \in 1..Len(w) :
              IF i % 2 = 0
              THEN IsObj(w[i])
              ELSE w[i] = (IF i = 1 /\ hist[Sink].start = <<>> THEN ArrayOpen ELSE Separator)
        /\ \A t \in Threads :
              /\ tpc[t] = "rec" => Len(w) % 2 = 1
              /\ tpc[t] \in {"flush", "release"} =>
                    Len(w) >= 2 /\ w[Len(w)] = JSONFormat(ThreadRecord(t))
        /\ Len(w) >= 1 => ~hs[Sink].first_log
        /\ InEmit = {} =>
              /\ hs[Sink].buf = <<>>
              /\ Objects(w) = hist[Sink].wrote
              /\ Len(hist[Sink].wrote) = Len(w) \div 2
              /\ \A i, j \in 1..Len(hist[Sink].wrote) :
                    i # j => hist[Sink].wrote[i] # hist[Sink].wrote[j]

C10_Witness ==
    /\ \A t \in Threads : tdone[t] >= 1 /\ tpc[t] = "idle"
    /\ Started = MaxEvents
    /\ hist[Sink].start = <<>>
    /\ Content(Sink) = <<ArrayOpen>> \o JoinRecords(hist[Sink].wrote)
    /\ \E i \in 1..(Len(hist[Sink].wrote) - 1) :
          hist[Sink].wrote[i].n > hist[Sink].wrote[i + 1].n

\* C11: every line of the console handler goes to sys.stdout and to no other
\* stream.
C11_ConsoleToStdout ==
    /\ stderr = <<>>
    /\ \A h \in Handlers : hs[h].kind = "console" => hs[h].stream = "stdout"

\* C12 as stated: any two file sinks of setup_logging target different files,
\* also when both calls fall into one UTC second.
C12_NeverSameFile ==
    \A g, h \in FileHandlers : g # h => hs[g].filename # hs[h].filename

\* C12 amended: two file sinks attached in different UTC seconds target
\* different files; two attached in the same second target the same file.
C12_SameFileIffSameSecond ==
    \A g, h \in FileHandlers :
        g # h => (hs[g].filename = hs[h].filename <=> hist[g].dt = hist[h].dt)

C12_Witness ==
    \E f, g, h \in FileHandlers :
        /\ f < g /\ g < h
        /\ hist[f].dt = hist[g].dt
        /\ hist[g].dt # hist[h].dt
        /\ Len(Content(g)) >= 2

\* C13 as stated: the name is logs/ + base name + _ + UTC time + .json, and
\* logs/ exists before the file is opened.
C13_PlainJsonName ==
    \A h \in FileHandlers :
        /\ hs[h].filename = <<"logs/", "main.py", "_", hist[h].dt, ".json">>
        /\ logsDir

\* C13 amended: the name is logs/ + base name + _ + UTC time + _UTC.json,
\* the base name being the last component of sys.argv[0]; logs/ and the file
\* exist once the sink is constructed.
C13_UtcJsonName ==
    \A h \in FileHandlers :
        /\ hs[h].filename = <<"logs/", "main.py", "_", hist[h].dt, "_UTC.json">>
        /\ logsDir
        /\ exists[hs[h].filename]

C13_Witness ==
    \E h \in FileHandlers :
        /\ hist[h].dt = 2
        /\ hist[h].setupNo = 1
        /\ ~exists[FileName(1)]
        /\ Len(disk[<<"logs/", "main.py", "_", 2, "_UTC.json">>]) >= 2

\* C18: on a sink opened against an empty file that no other sink shares,
\* whatever writes failed, the file after close is a valid JSON array of
\* exactly the records the successful writes produced, in order.
C18_FailedWriteLeavesNothing ==
    \A h \in FileHandlers :
        (/\ hist[h].start = <<>>
         /\ Sole(h)
         /\ Len(hist[h].wrote) >= 1
         /\ hist[h].closes = 1
         /\ hs[h].stream = "closed")
        => /\ IsJSONArray(Content(h))
           /\ Objects(Content(h)) = hist[h].wrote

\* C19: a further close() on a sink that wrote a record and has been closed
\* appends nothing, raises nothing and leaves one terminating \n]\n.
C19_CloseIdempotent ==
    [][\A h \in FileHandlers :
          (/\ Len(hist[h].wrote) >= 1
           /\ hs[h].stream = "closed"
           /\ hist[h].closes >= 1
           /\ hist'[h].closes = hist[h].closes + 1)
          => /\ raised' = "none"
             /\ Content(h)' = Content(h)
             /\ hist'[h].terminated = 1]_vars

\* C17: a sink constructed with delay=True and one opened at once, given the
\* same calls on files with the same content, raise nothing, complete the
\* same writes and leave the same file content.
C17_LazySameAsImmediate ==
    /\ raised = "none"
    /\ hist[Lazy].wrote = hist[Immediate].wrote
    /\ Content(Lazy) = Content(Immediate)

\* C20: with one thread calling close() on the sink while others log, the
\* terminating "\n]\n" is the last thing the sink ever writes and it follows
\* a complete record: it never stands between a separator and its record,
\* and no separator or record follows it.
C20_CloseExcludesWrite ==
    LET w == Written(Sink)
    IN  \A i \in 1..Len(w) :
           w[i] = ArrayClose => /\ i = Len(w)
                                /\ i > 1 => IsObj(w[i - 1])

\* what a JSON parser reads as the string value that begins at position i
\* of the text s (just after the opening quote): the decoded characters and
\* the position after the closing quote; raw control characters, unknown
\* escapes and a missing closing quote are errors
RECURSIVE Unescape(_, _, _)
Unescape(s, i, acc) ==
    IF i > Len(s) THEN [ok |-> FALSE, msg |-> acc, next |-> i]
    ELSE IF s[i] = "\"" THEN [ok |-> TRUE, msg |-> acc, next |-> i + 1]
    ELSE IF s[i] = "\\"
         THEN IF i + 1 > Len(s) THEN [ok |-> FALSE, msg |-> acc, next |-> i]
              ELSE CASE s[i + 1] = "\"" -> Unescape(s, i + 2, Append(acc, "\""))
                     [] s[i + 1] = "\\" -> Unescape(s, i + 2, Append(acc, "\\"))
                     [] s[i + 1] = "n" -> Unescape(s, i + 2, Append(acc, "\n"))
                     [] s[i + 1] = "u" ->
                          IF i + 5 <= Len(s) /\ SubSeq(s, i + 2, i + 5) = <<"0", "0", "0", "1">>
                          THEN Unescape(s, i + 6, Append(acc, "U+0001"))
                          ELSE [ok |-> FALSE, msg |-> acc, next |-> i]
                     [] OTHER -> [ok |-> FALSE, msg |-> acc, next |-> i]
    ELSE IF s[i] \in {"\n", "U+0001"} THEN [ok |-> FALSE, msg |-> acc, next |-> i]
    ELSE Unescape(s, i + 1, Append(acc, s[i]))

\* the "message" value of a rendered line, read back by a JSON parser: the
\* string that starts after the rendered keys must end the object
DecodeMessage(line) ==
    LET start == Len(JSONHead([levelno |-> INFO, msg |-> <<>>])) + 1
        r == Unescape(line, start, <<>>)
    IN  [ok |-> r.ok /\ SubSeq(line, r.next, Len(line)) = <<"}">>, msg |-> r.msg]

Ordinary(msg) == \A i \in 1..Len(msg) : msg[i] \in {"a", "n", "\"", "\\", "\n"}

\* C14: whatever the message content, formatting and writing the record
\* raises nothing and the whole rendered record is written.
C14_WriteNeverRaises ==
    fmt.pc \in {"written", "failed"} => fmt.raised = "none" /\ fmt.out = fmt.json

\* C15: for a message of ordinary characters, double quotes, backslashes and
\* newlines, the rendered JSON line holds no raw newline and its "message"
\* value decodes back to exactly the original message.
C15_MessageRoundTrip ==
    (fmt.pc \in {"json", "written", "failed"} /\ Ordinary(fmt.msg)) =>
        /\ \A i \in 1..Len(fmt.json) : fmt.json[i] # "\n"
        /\ DecodeMessage(fmt.json) = [ok |-> TRUE, msg |-> fmt.msg]

C15_Witness ==
    /\ fmt.pc = "json"
    /\ fmt.msg = <<"\"", "\\", "\n">>
    /\ DecodeMessage(fmt.json).msg = <<"\"", "\\", "\n">>

\* C16: the console line of a record of each of the five severities starts
\* with the colour of that severity (DEBUG and INFO grey, WARNING yellow,
\* ERROR red, CRITICAL bold red) and ends with the reset code, around the
\* unchanged message; the colours of INFO, WARNING and ERROR lines differ
\* pairwise.
C16_ColourBySeverity ==
    fmt.pc \in {"console", "json", "written", "failed"} =>
        /\ fmt.console.prefix =
              (CASE fmt.levelno \in {DEBUG, INFO} -> "ESC[38;20m"
                 [] fmt.levelno = WARNING -> "ESC[33;20m"
                 [] fmt.levelno = ERROR -> "ESC[31;20m"
                 [] fmt.levelno = CRITICAL -> "ESC[31;1m")
        /\ fmt.console.suffix = "ESC[0m"
        /\ fmt.console.msg = fmt.msg
        /\ fmt.console.level = LevelName(fmt.levelno)
        /\ \A k, l \in {INFO, WARNING, ERROR} :
              k # l => CustomFormat([levelno |-> k, msg |-> fmt.msg]).prefix
                        # CustomFormat([levelno |-> l, msg |-> fmt.msg]).prefix

C16_Witness ==
    /\ fmt.pc = "console"
    /\ fmt.levelno = CRITICAL
    /\ Len(fmt.msg) >= 1
    /\ fmt.console.prefix = bold_red
    /\ fmt.console.suffix = reset

====
